---------------------------- MODULE Spec2Model ----------------------------
(***************************************************************************)
(* Record linkage of two data frames, as run by the three code cells of    *)
(* Recordlinkage_Practice.ipynb:                                           *)
(*   cell 1  block on 'state' and index dfA x dfB into candidate pairs     *)
(*   cell 2  compare four fields of every pair, keep the rows whose        *)
(*           scores sum to at least 3                                      *)
(*   cell 3  drop the matched rows of dfB, concatenate dfA and the rest,   *)
(*           count the exact duplicate rows                                *)
(* Strings are tuples of character codes 1..9; a missing value is NaN.     *)
(***************************************************************************)
EXTENDS Integers, Sequences, FiniteSets

VARIABLES dfA, dfB, pairs, potential_matches, matched_rows, full_data,
          num_duplicates, pc

vars == <<dfA, dfB, pairs, potential_matches, matched_rows, full_data,
          num_duplicates, pc>>

\* ------------------------------------------------------------------ bounds
MaxRowsA == 2
MaxRowsB == 2

\* ------------------------------------------------------------- the data
NaN == <<0>>

isnull(v) == v = NaN

\* The columns of the frames that the pipeline reads, and surname for the
\* columns it only carries along.
Columns == {"given_name", "surname", "address_1", "state", "date_of_birth",
            "soc_sec_id"}

nsw == <<1, 2>>
vic == <<3, 4>>
michaela == <<1, 2, 3>>
courtney == <<4, 5, 6>>
neumann == <<7>>
painter == <<8>>
dob_1915 == <<1, 9, 1, 5>>
ssn_5304 == <<5, 3, 4>>
stanley_street == <<1, 2, 3, 4, 5, 6, 7>>
\* one edit away from stanley_street: similarity 6/7
stanley_streeq == <<1, 2, 3, 4, 5, 6, 8>>
\* two edits away from stanley_street, one from stanley_streeq
stanley_stresq == <<1, 2, 3, 4, 5, 9, 8>>

Rec(g, s, a, st, d, ssn) ==
    [given_name |-> g, surname |-> s, address_1 |-> a, state |-> st,
     date_of_birth |-> d, soc_sec_id |-> ssn]

\* The rows a frame may hold.
RowPool ==
    { Rec(michaela, neumann, stanley_street, nsw, dob_1915, ssn_5304),
      Rec(michaela, painter, stanley_streeq, nsw, dob_1915, ssn_5304),
      Rec(courtney, neumann, stanley_stresq, nsw, dob_1915, ssn_5304),
      Rec(michaela, neumann, stanley_street, NaN, dob_1915, ssn_5304),
      Rec(michaela, neumann, stanley_street, vic, dob_1915, ssn_5304),
      Rec(NaN,      neumann, NaN,            nsw, dob_1915, ssn_5304) }

\* The column sets of (dfA, dfB): the full schema, a frame without the
\* blocking column, a frame without a compared column.
Schemas ==
    { <<Columns, Columns>>,
      <<Columns \ {"state"}, Columns>>,
      <<Columns, Columns \ {"soc_sec_id"}>> }

BoundedSeq(S, n) == UNION {[1..k -> S] : k \in 0..n}

Project(r, cols) == [c \in cols |-> r[c]]

\* A data frame: its columns and its rows in order.
DataFrame(cols, rows) ==
    [columns |-> cols, rows |-> [i \in 1..Len(rows) |-> Project(rows[i], cols)]]

\* The rec_id index of a frame: each frame numbers its own rows, so the same
\* label occurs in dfA and in dfB.
index(df) == [i \in 1..Len(df.rows) |-> i]

loc(df, id) == df.rows[CHOOSE i \in 1..Len(df.rows) : index(df)[i] = id]

\* ------------------------------------------------- cell 1: Index().block
\* frame[[key]] with its row position, rows with a missing key dropped
dropna_kept(data) == data

dropna(data) == SelectSeq(data, LAMBDA r : ~isnull(r.blocking_key_0))

blocking_data(df, key) ==
    dropna([i \in 1..Len(df.rows) |->
              [blocking_key_0 |-> df.rows[i][key], position |-> i]])

\* the merge that keeps one right-hand row per left-hand row
RECURSIVE merge_first(_, _)
merge_first(data_left, data_right) ==
    IF data_left = <<>> THEN <<>>
    ELSE LET l == Head(data_left)
             m == SelectSeq(data_right,
                    LAMBDA r : r.blocking_key_0 = l.blocking_key_0)
         IN  (IF m = <<>> THEN <<>>
              ELSE <<[index_x |-> l.position, index_y |-> m[1].position]>>)
             \o merge_first(Tail(data_left), data_right)

\* data_left.merge(data_right, how="inner", on=blocking_keys)
RECURSIVE merge(_, _)
merge(data_left, data_right) ==
    IF data_left = <<>> THEN <<>>
    ELSE LET l == Head(data_left)
             m == SelectSeq(data_right,
                    LAMBDA r : r.blocking_key_0 = l.blocking_key_0)
         IN  [k \in 1..Len(m) |->
                [index_x |-> l.position, index_y |-> m[k].position]]
             \o merge(Tail(data_left), data_right)

\* the MultiIndex with the two codes arrays interchanged
Block_link_index_swapped(df_a, df_b, key) ==
    LET pairs_df == merge(blocking_data(df_a, key), blocking_data(df_b, key))
    IN  [k \in 1..Len(pairs_df) |->
           <<index(df_b)[pairs_df[k].index_y], index(df_a)[pairs_df[k].index_x]>>]

\* The MultiIndex of candidate pairs: levels are the two rec_id indexes,
\* codes the merged row positions.
Block_link_index(df_a, df_b, key) ==
    LET pairs_df == merge(blocking_data(df_a, key), blocking_data(df_b, key))
    IN  [k \in 1..Len(pairs_df) |->
           <<index(df_a)[pairs_df[k].index_x], index(df_b)[pairs_df[k].index_y]>>]

\* --------------------------------------------- cell 2: Compare().compute
Threshold_num == 85
Threshold_den == 100
MatchSum == 3

\* the comparison that lets two missing values agree
Exact_nan_equal(s_left, s_right) == IF s_left = s_right THEN 1 ELSE 0

\* compare_cl.exact: 1 where s_left == s_right, else 0; NaN == NaN is false
Exact(s_left, s_right) ==
    IF ~isnull(s_left) /\ ~isnull(s_right) /\ s_left = s_right THEN 1 ELSE 0

Min3(a, b, c) ==
    IF a <= b /\ a <= c THEN a ELSE IF b <= c THEN b ELSE c

\* one row of the edit-distance table from the row above it
RECURSIVE BuildRow(_, _, _, _)
BuildRow(prev, c, t, acc) ==
    IF Len(acc) = Len(t) + 1 THEN acc
    ELSE LET j == Len(acc)
             cost == IF c = t[j] THEN 0 ELSE 1
         IN  BuildRow(prev, c, t,
                Append(acc, Min3(prev[j + 1] + 1, acc[j] + 1, prev[j] + cost)))

RECURSIVE LevRows(_, _, _)
LevRows(s, t, row) ==
    IF s = <<>> THEN row[Len(t) + 1]
    ELSE LevRows(Tail(s), t, BuildRow(row, Head(s), t, <<row[1] + 1>>))

levenshtein_distance(s, t) == LevRows(s, t, [j \in 1..(Len(t) + 1) |-> j - 1])

Max(a, b) == IF a >= b THEN a ELSE b

\* A float as the fraction num/den; 0/0 is the float nan.
nan == [num |-> 0, den |-> 0]

isnan(c) == c.den = 0

\* 1 - distance / max(len), or nan when a value is missing (len() raises
\* and the value is null) or both strings are empty (0/0)
levenshtein_similarity(s1, s2) ==
    IF isnull(s1) \/ isnull(s2) THEN nan
    ELSE LET den == Max(Len(s1), Len(s2))
         IN  IF den = 0 THEN nan
             ELSE [num |-> den - levenshtein_distance(s1, s2), den |-> den]

\* c >= threshold, for a similarity that is not nan
ge_threshold(c) == c.num * Threshold_den >= Threshold_num * c.den

\* the comparison without the second where(): a similarity below the
\* threshold stays as it is (here in hundredths)
String_raw(s_left, s_right) ==
    LET c == levenshtein_similarity(s_left, s_right)
    IN  IF isnan(c) THEN 0
        ELSE IF ge_threshold(c) THEN 1 ELSE (100 * c.num) \div c.den

\* compare_cl.string(method='levenshtein', threshold=0.85): 1.0 where the
\* similarity reaches the threshold, 0.0 where it does not, missing as 0
String(s_left, s_right) ==
    LET c == levenshtein_similarity(s_left, s_right)
    IN  IF isnan(c) THEN 0
        ELSE IF ge_threshold(c) THEN 1 ELSE 0

\* the fields each feature reads from dfA and from dfB
labels_left == {"given_name", "date_of_birth", "soc_sec_id", "address_1"}
labels_right == {"given_name", "date_of_birth", "soc_sec_id", "address_1"}

Features == {"first_name", "date_of_birth", "soc_sec_id", "address_1"}

\* one row of the feature table, for the pair (rec_id_1, rec_id_2)
compute_row(pair, df_a, df_b) ==
    LET a == loc(df_a, pair[1])
        b == loc(df_b, pair[2])
    IN  [rec_id_1 |-> pair[1], rec_id_2 |-> pair[2],
         first_name |-> Exact(a["given_name"], b["given_name"]),
         date_of_birth |-> Exact(a["date_of_birth"], b["date_of_birth"]),
         soc_sec_id |-> Exact(a["soc_sec_id"], b["soc_sec_id"]),
         address_1 |-> String(a["address_1"], b["address_1"])]

compute(prs, df_a, df_b) ==
    [k \in 1..Len(prs) |-> compute_row(prs[k], df_a, df_b)]

\* potential_matches.sum(axis=1)
sum(row) ==
    row.first_name + row.date_of_birth + row.soc_sec_id + row.address_1

is_match_gt(row) == sum(row) > MatchSum

is_match(row) == sum(row) >= MatchSum

\* ------------------------------------------------ cell 3: isin / concat
get_level_values_0(rows) == [k \in 1..Len(rows) |-> rows[k].rec_id_1]

get_level_values_1(rows) == [k \in 1..Len(rows) |-> rows[k].rec_id_2]

Range(s) == {s[k] : k \in 1..Len(s)}

\* the rec_ids of df that isin(values) marks
isin(df, values) == {id \in Range(index(df)) : id \in Range(values)}

RECURSIVE filter(_, _, _)
filter(df, keep, i) ==
    IF i > Len(df.rows) THEN <<>>
    ELSE (IF index(df)[i] \in keep THEN <<df.rows[i]>> ELSE <<>>)
         \o filter(df, keep, i + 1)

\* the concatenation that also drops the rows of dfA that found a match
concat_unmatched(df_a, rows_b) ==
    filter(df_a, Range(index(df_a)) \ {r.rec_id_1 : r \in Range(matched_rows)}, 1)
    \o rows_b

concat(df_a, rows_b) == df_a.rows \o rows_b

\* full_data.duplicated().sum(): rows equal to an earlier row
duplicated_sum(rows) ==
    Cardinality({k \in 1..Len(rows) : \E j \in 1..(k - 1) : rows[j] = rows[k]})

\* ------------------------------------------------------------ the cells
Init ==
    /\ \E sch \in Schemas, a \in BoundedSeq(RowPool, MaxRowsA),
          b \in BoundedSeq(RowPool, MaxRowsB) :
          /\ dfA = DataFrame(sch[1], a)
          /\ dfB = DataFrame(sch[2], b)
    /\ pairs = <<>>
    /\ potential_matches = <<>>
    /\ matched_rows = <<>>
    /\ full_data = <<>>
    /\ num_duplicates = 0
    /\ pc = "cell1"

\* indexer.block('state'); pairs = indexer.index(dfA, dfB)
Cell1 ==
    /\ pc = "cell1"
    /\ IF "state" \in dfA.columns /\ "state" \in dfB.columns
       THEN /\ pairs' = Block_link_index(dfA, dfB, "state")
            /\ pc' = "cell2"
       ELSE /\ pc' = "KeyError"
            /\ UNCHANGED pairs
    /\ UNCHANGED <<dfA, dfB, potential_matches, matched_rows, full_data,
                   num_duplicates>>

\* potential_matches = compare_cl.compute(pairs, dfA, dfB);
\* matched_rows = potential_matches[potential_matches.sum(axis=1) >= 3]
Cell2 ==
    /\ pc = "cell2"
    /\ IF labels_left \subseteq dfA.columns /\ labels_right \subseteq dfB.columns
       THEN /\ potential_matches' = compute(pairs, dfA, dfB)
            /\ matched_rows' = SelectSeq(potential_matches', is_match)
            /\ pc' = "cell3"
       ELSE /\ pc' = "KeyError"
            /\ UNCHANGED <<potential_matches, matched_rows>>
    /\ UNCHANGED <<dfA, dfB, pairs, full_data, num_duplicates>>

\* duplicates_rows, dfB_new, full_data = pd.concat([dfA, dfB_new]),
\* full_data.duplicated().sum()
Cell3 ==
    /\ pc = "cell3"
    /\ LET duplicates_rows == get_level_values_1(matched_rows)
           dfB_new == filter(dfB, Range(index(dfB)) \ isin(dfB, duplicates_rows), 1)
       IN  /\ full_data' = concat(dfA, dfB_new)
           /\ num_duplicates' = duplicated_sum(full_data')
    /\ pc' = "done"
    /\ UNCHANGED <<dfA, dfB, pairs, potential_matches, matched_rows>>

Next == Cell1 \/ Cell2 \/ Cell3

Spec == Init /\ [][Next]_vars

\* ------------------------------------------------------------ properties
RowsA == 1..Len(dfA.rows)
RowsB == 1..Len(dfB.rows)

Indexed == pc \in {"cell2", "cell3", "done"}
Computed == pc \in {"cell3", "done"}

PairSet == Range(pairs)

\* C1: every candidate pair joins two rows with the same, present 'state';
\* a row whose 'state' is missing is in no candidate pair.
C1_BlockingSound ==
    Indexed =>
      /\ \A p \in PairSet :
            /\ ~isnull(loc(dfA, p[1])["state"])
            /\ ~isnull(loc(dfB, p[2])["state"])
            /\ loc(dfA, p[1])["state"] = loc(dfB, p[2])["state"]
      /\ \A i \in RowsA : isnull(dfA.rows[i]["state"]) =>
            \A p \in PairSet : p[1] # index(dfA)[i]
      /\ \A j \in RowsB : isnull(dfB.rows[j]["state"]) =>
            \A p \in PairSet : p[2] # index(dfB)[j]

\* both frames hold a row without 'state', and pairs were generated
C1_Witness ==
    /\ pc = "cell2"
    /\ pairs # <<>>
    /\ \E i \in RowsA : isnull(dfA.rows[i]["state"])
    /\ \E j \in RowsB : isnull(dfB.rows[j]["state"])

\* C2: every row of dfA and row of dfB with the same, present 'state' are a
\* candidate pair.
C2_BlockingComplete ==
    Indexed =>
      \A i \in RowsA, j \in RowsB :
         (/\ ~isnull(dfA.rows[i]["state"])
          /\ dfA.rows[i]["state"] = dfB.rows[j]["state"])
         => <<index(dfA)[i], index(dfB)[j]>> \in PairSet

\* a block with two rows on each side: four pairs
C2_Witness ==
    /\ pc = "cell2"
    /\ Len(dfA.rows) >= 2 /\ Len(dfB.rows) >= 2
    /\ \A i \in RowsA, j \in RowsB :
          ~isnull(dfA.rows[i]["state"]) /\ dfA.rows[i]["state"] = dfB.rows[j]["state"]

Ones(row) == Cardinality({f \in Features : row[f] = 1})
Zeros(row) == Cardinality({f \in Features : row[f] = 0})

Flagged(i, j) ==
    \E r \in Range(matched_rows) : r.rec_id_1 = i /\ r.rec_id_2 = j

\* C3: a pair is in matched_rows exactly if it is a candidate pair and at
\* least 3 of its 4 scores are 1; a pair with two 1s and two 0s is not.
C3_MatchDecision ==
    Computed =>
      /\ \A i \in Range(index(dfA)), j \in Range(index(dfB)) :
            Flagged(i, j) <=>
               /\ <<i, j>> \in PairSet
               /\ \E r \in Range(potential_matches) :
                     r.rec_id_1 = i /\ r.rec_id_2 = j /\ Ones(r) >= 3
      /\ \A r \in Range(matched_rows) : ~(Ones(r) = 2 /\ Zeros(r) = 2)
      /\ \A r \in Range(matched_rows) : <<r.rec_id_1, r.rec_id_2>> \in PairSet

\* scored pairs with exactly two, exactly three and four agreeing fields,
\* and a pair of rows that blocking kept apart
C3_Witness ==
    /\ pc = "cell3"
    /\ \E r \in Range(potential_matches) : Ones(r) = 2 /\ Zeros(r) = 2
    /\ \E r \in Range(matched_rows) : Ones(r) = 3
    /\ \E i \in Range(index(dfA)), j \in Range(index(dfB)) : <<i, j>> \notin PairSet

MatchedB == {r.rec_id_2 : r \in Range(matched_rows)}

KeptB == {j \in RowsB : index(dfB)[j] \notin MatchedB}

\* C4: full_data is dfA in order, then in order the rows of dfB whose rec_id
\* is on the dfB side of no matched pair.
C4_MergeContentOrder ==
    pc = "done" =>
      /\ Len(full_data) = Len(dfA.rows) + Cardinality(KeptB)
      /\ \A i \in RowsA : full_data[i] = dfA.rows[i]
      /\ \A j \in KeptB :
            full_data[Len(dfA.rows) + Cardinality({k \in KeptB : k <= j})]
               = dfB.rows[j]

\* one row of dfB dropped and a different one kept, behind two rows of dfA
C4_Witness ==
    /\ pc = "done"
    /\ Len(dfA.rows) = 2
    /\ Len(dfB.rows) = 2
    /\ Cardinality(KeptB) = 1
    /\ dfB.rows[1] # dfB.rows[2]
    /\ dfA.rows[1] # dfA.rows[2]

\* C5: full_data has |dfA| + |dfB| - |matched dfB rec_ids| rows, and every
\* row of dfA is in it.
C5_MergeCardinality ==
    pc = "done" =>
      /\ Len(full_data) = Len(dfA.rows) + Len(dfB.rows) - Cardinality(MatchedB)
      /\ \A i \in RowsA : \E k \in 1..Len(full_data) :
            /\ full_data[k] = dfA.rows[i]
            /\ Cardinality({m \in 1..Len(full_data) : full_data[m] = dfA.rows[i]})
                 >= Cardinality({m \in RowsA : dfA.rows[m] = dfA.rows[i]})

\* two rows of dfA matched the same row of dfB, and one row of dfA matched
\* two rows of dfB
C5_Witness ==
    /\ pc = "done"
    /\ \E r1, r2 \in Range(matched_rows) :
          r1.rec_id_2 = r2.rec_id_2 /\ r1.rec_id_1 # r2.rec_id_1
    /\ \E r1, r2 \in Range(matched_rows) :
          r1.rec_id_1 = r2.rec_id_1 /\ r1.rec_id_2 # r2.rec_id_2

\* C6: after the merge no two rows of full_data are equal on all fields.
C6_NoExactDuplicates ==
    pc = "done" =>
      /\ num_duplicates = 0
      /\ \A k, m \in 1..Len(full_data) : k # m => full_data[k] # full_data[m]

\* C7: no candidate pair occurs twice; the first rec_id of a pair is one of
\* dfA, the second one of dfB.
C7_PairsWellFormed ==
    /\ \A k, m \in 1..Len(pairs) : k # m => pairs[k] # pairs[m]
    /\ \A k \in 1..Len(pairs) :
          /\ pairs[k][1] \in Range(index(dfA))
          /\ pairs[k][2] \in Range(index(dfB))

\* dfA has more rows than dfB, all in one block, so a pair with equal
\* rec_ids and a pair whose first rec_id is no rec_id of dfB both occur
C7_Witness ==
    /\ pc = "cell2"
    /\ Len(dfA.rows) > Len(dfB.rows)
    /\ \E p \in PairSet : p[1] = p[2]
    /\ \E p \in PairSet : p[1] \notin Range(index(dfB))

\* C8: when a column named by the blocking key or by a comparator is absent,
\* the run stops with no candidate pair, no feature row and no merged row.
C8_ConfigErrorBeforeWork ==
    pc = "KeyError" =>
       pairs = <<>> /\ potential_matches = <<>> /\ full_data = <<>>

FieldOf(f) == IF f = "first_name" THEN "given_name" ELSE f

\* C9: a comparator whose field is missing on either side scores 0, and the
\* comparison of frames that have all compared columns does not fail.
C9_MissingScoresZero ==
    /\ Computed =>
         \A r \in Range(potential_matches), f \in Features :
            (\/ isnull(loc(dfA, r.rec_id_1)[FieldOf(f)])
             \/ isnull(loc(dfB, r.rec_id_2)[FieldOf(f)]))
            => r[f] = 0
    /\ (pc = "KeyError" /\ "state" \in dfA.columns /\ "state" \in dfB.columns)
         => ~(labels_left \subseteq dfA.columns /\ labels_right \subseteq dfB.columns)

\* a scored pair whose given_name and address_1 are missing on both sides
C9_Witness ==
    /\ pc = "cell3"
    /\ \E r \in Range(potential_matches) :
          /\ isnull(loc(dfA, r.rec_id_1)["given_name"])
          /\ isnull(loc(dfB, r.rec_id_2)["given_name"])
          /\ isnull(loc(dfA, r.rec_id_1)["address_1"])
          /\ isnull(loc(dfB, r.rec_id_2)["address_1"])

\* C10: the feature table has one row per candidate pair and no other, each
\* row has one score per comparator label, every score is 0 or 1, and the
\* address_1 score of two present strings is 1 exactly if their similarity
\* reaches the threshold.
C10_FeatureTable ==
    Computed =>
      /\ Len(potential_matches) = Len(pairs)
      /\ \A k \in 1..Len(potential_matches) :
            LET r == potential_matches[k]
                a == loc(dfA, r.rec_id_1)["address_1"]
                b == loc(dfB, r.rec_id_2)["address_1"]
            IN  /\ <<r.rec_id_1, r.rec_id_2>> = pairs[k]
                /\ DOMAIN r = Features \cup {"rec_id_1", "rec_id_2"}
                /\ \A f \in Features : r[f] \in {0, 1}
                /\ sum(r) \in 0..Cardinality(Features)
                /\ (~isnull(a) /\ ~isnull(b) /\ a # <<>>) =>
                      (r["address_1"] = 1 <=>
                         Threshold_den * (Max(Len(a), Len(b)) - levenshtein_distance(a, b))
                            >= Threshold_num * Max(Len(a), Len(b)))

\* scored pairs whose addresses differ by one edit (similar) and by two
\* edits (not similar)
C10_Witness ==
    /\ pc = "cell3"
    /\ \E r \in Range(potential_matches) :
          /\ loc(dfA, r.rec_id_1)["address_1"] # loc(dfB, r.rec_id_2)["address_1"]
          /\ r["address_1"] = 1
    /\ \E r \in Range(potential_matches) :
          /\ ~isnull(loc(dfA, r.rec_id_1)["address_1"])
          /\ ~isnull(loc(dfB, r.rec_id_2)["address_1"])
          /\ r["address_1"] = 0

=============================================================================
